---- MODULE Spec2Model ----
(***************************************************************************)
(* A model of ExpensePredictor (src/expense_predictor_model.py): one       *)
(* predictor instance, the model files it saves and loads, and the         *)
(* operations train, predict_category, predict_next_month, save_model and  *)
(* load_model, each translated from its code.                              *)
(*                                                                         *)
(* Abstractions of library code (stated once, used throughout):            *)
(*  - a fitted RandomForestRegressor is identified by the data it was      *)
(*    fitted on; its prediction is a deterministic function of that data   *)
(*    and of the query row that lies between the smallest and the largest  *)
(*    training target;                                                     *)
(*  - the seeded shuffle of train_test_split is a fixed permutation that   *)
(*    depends on the number of rows only;                                  *)
(*  - joblib.dump/joblib.load store and return the dictionary they are     *)
(*    given; a file that cannot be unpickled is the file kind "corrupt".   *)
(* Percentages are kept in tenths of a percent (Tenths) so that the mean   *)
(* importance 12.5 stays an integer.                                       *)
(***************************************************************************)
EXTENDS Integers, Sequences, FiniteSets, TLC

VARIABLES
  model,             \* self.model
  category_encoder,  \* self.category_encoder
  feature_columns,   \* self.feature_columns
  is_fitted,         \* self.is_fitted
  fs,                \* the file at each path
  dirs,              \* the directories that exist
  last,              \* history: the last call, its arguments and what it returned
  succeeded,         \* history: a train or a load of this instance returned success
  running            \* the train call in progress on another thread, if any

vars ==
  <<model, category_encoder, feature_columns, is_fitted, fs, dirs, last, succeeded,
    running>>

---------------------------------------------------------------------------
(* Bounds and program constants *)

\* largest number of usable rows of a training dataset
MaxRows == 10

\* train: "if len(X) < 10"
MinSamples == 10

\* predict_category: min(95, max(50, ...))
ConfLo == 50

ConfHi == 95

\* a percentage in tenths of a percent
Tenths(p) == p * 10

Min(a, b) == IF a < b THEN a ELSE b

Max(a, b) == IF a > b THEN a ELSE b

RECURSIVE SumSeq(_)
SumSeq(s) == IF s = <<>> THEN 0 ELSE Head(s) + SumSeq(Tail(s))

Range(s) == {s[i] : i \in 1..Len(s)}

\* a function on 1..n as the tuple of its values
AsSeq(f) == f \o <<>>

---------------------------------------------------------------------------
(* Categories, dates and input datasets *)

\* the category strings in lexicographic order (the order of np.unique)
CatOrder == <<"Food", "Gift", "Rent", "Salary">>

Categories == Range(CatOrder)

\* calendar dates of the datasets' records
DateSeq ==
  << [year |-> 2024, month |-> 3, day |-> 2],
     [year |-> 2024, month |-> 7, day |-> 15],
     [year |-> 2024, month |-> 12, day |-> 25] >>

\* days since 1970-01-01 of a civil date (proleptic Gregorian calendar)
DaysFromCivil(d) ==
  LET y   == IF d.month <= 2 THEN d.year - 1 ELSE d.year
      era == y \div 400
      yoe == y - era * 400
      mp  == IF d.month > 2 THEN d.month - 3 ELSE d.month + 9
      doy == (153 * mp + 2) \div 5 + d.day - 1
      doe == yoe * 365 + yoe \div 4 - yoe \div 100 + doy
  IN  era * 146097 + doe - 719468

\* Series.dt.weekday: Monday = 0 .. Sunday = 6 (1970-01-01 was a Thursday)
Weekday(d) == (DaysFromCivil(d) + 3) % 7

\* Series.dt.quarter
Quarter(d) == ((d.month - 1) \div 3) + 1

\* a dataset is named by its format, the category list its records cycle through
\* and its number of usable rows
RowCounts == {0} \cup ((MinSamples - 1)..MaxRows)

\* and by its defect, if any: a column no record has, or a date string that is no
\* date in one of its records
EmptyData == [fmt |-> "empty", cats |-> <<>>, n |-> 0, defect |-> "none"]

DefectiveData ==
  [fmt : {"amount"}, cats : {<<"Food">>}, n : {MinSamples},
   defect : {"no_date", "no_amount", "bad_date"}] \cup
  { [fmt |-> "paired", cats |-> <<"Food", "Salary">>, n |-> MinSamples,
     defect |-> "no_date"],
    [fmt |-> "paired", cats |-> <<"Food", "Salary">>, n |-> 0,
     defect |-> "no_category"] }

DataIds ==
  [fmt : {"amount"}, cats : {<<"Food">>}, n : RowCounts, defect : {"none"}] \cup
  [fmt : {"paired"}, cats : {<<"Food", "Salary">>}, n : RowCounts,
   defect : {"none"}] \cup
  {EmptyData} \cup DefectiveData

NoData == [fmt |-> "none", cats |-> <<>>, n |-> 0, defect |-> "none"]

\* a date value pd.to_datetime cannot parse
BadDate == [year |-> 0, month |-> 0, day |-> 0]

\* pd.to_datetime accepts the value
Parseable(d) == d.month \in 1..12 /\ d.day \in 1..31

AmountOf(i) == 100 * ((i % 4) + 1)

CatAt(cats, i) == cats[((i - 1) % Len(cats)) + 1]

DateAt(i) == DateSeq[((i - 1) % Len(DateSeq)) + 1]

Columns(id) ==
  LET lacks == IF id.defect = "no_date" THEN {"date"}
               ELSE IF id.defect = "no_category" THEN {"category"}
               ELSE IF id.defect = "no_amount" THEN {"amount"}
               ELSE {}
  IN  IF id.fmt = "empty" THEN {}
      ELSE IF id.fmt = "amount"
      THEN {"date", "category", "amount", "transaction_type"} \ lacks
      ELSE {"date", "category", "total_expense", "total_income",
            "transaction_type"} \ lacks

\* a record of the "amount" format: one usable row per record
AmountRow(cats, i) ==
  [date |-> DateAt(i), category |-> CatAt(cats, i), amount |-> AmountOf(i),
   total_expense |-> 0, total_income |-> 0, transaction_type |-> "expense"]

\* a record of the "paired" format: the first record carries both an expense and
\* an income (two usable rows), the others one of the two
PairedRow(cats, i) ==
  LET c == CatAt(cats, i)
  IN  [date |-> DateAt(i), category |-> c, amount |-> 0,
       total_expense |-> IF i = 1 \/ c # "Salary" THEN AmountOf(i) ELSE 0,
       total_income  |-> IF i = 1 \/ c = "Salary" THEN AmountOf(i + 1) ELSE 0,
       transaction_type |-> IF i = 1 \/ c # "Salary" THEN "expense" ELSE "income"]

\* every dataset ends with a record of category "Gift" whose amounts are all 0
ZeroRow ==
  [date |-> DateSeq[1], category |-> "Gift", amount |-> 0,
   total_expense |-> 0, total_income |-> 0, transaction_type |-> "income"]

\* the list of dictionaries handed to train (with the defect "bad_date" the
\* second record carries the unparsable date)
Records(id) ==
  IF id.fmt = "empty" THEN <<>>
  ELSE IF id.fmt = "amount"
  THEN [i \in 1..id.n |->
          IF id.defect = "bad_date" /\ i = 2
          THEN [AmountRow(id.cats, i) EXCEPT !.date = BadDate]
          ELSE AmountRow(id.cats, i)] \o <<ZeroRow>>
  ELSE [i \in 1..Max(id.n - 1, 0) |-> PairedRow(id.cats, i)] \o <<ZeroRow>>

---------------------------------------------------------------------------
(* ExpensePredictor: construction and feature building *)

\* __init__: self.feature_columns
FeatureColumns ==
  << "month", "weekday", "is_weekend", "quarter", "day_of_month",
     "is_month_start", "is_month_end", "category_encoded" >>

\* __init__: an unfitted RandomForestRegressor
UnfittedModel == [fitted |-> FALSE, X |-> <<>>, y |-> <<>>]

\* __init__: an unfitted LabelEncoder (no classes_ attribute)
UnfittedEncoder == [fitted |-> FALSE, classes |-> <<>>]

\* the instance state as one record
State(m, e, fc, f) ==
  [model |-> m, category_encoder |-> e, feature_columns |-> fc, is_fitted |-> f]

FreshState == State(UnfittedModel, UnfittedEncoder, FeatureColumns, FALSE)

Self == State(model, category_encoder, feature_columns, is_fitted)

\* LabelEncoder.fit: classes_ = the sorted distinct values
FitClasses(cats) == SelectSeq(CatOrder, LAMBDA c : c \in cats)

\* LabelEncoder.transform of one known value: its index in classes_
Code(classes, c) == (CHOOSE i \in 1..Len(classes) : classes[i] = c) - 1

\* create_features, lines 46-53: the encoder after the call
EncoderAfter(df, fitted, enc) ==
  IF ~fitted
  THEN [fitted |-> TRUE, classes |-> FitClasses({df[i].category : i \in 1..Len(df)})]
  ELSE enc

\* transform numbering the classes from 1 where fit_transform numbers them from 0
CategoryEncodedOneBased(c, fitted, encAfter) ==
  IF ~fitted
  THEN Code(encAfter.classes, c)
  ELSE IF c \in Range(encAfter.classes) THEN Code(encAfter.classes, c) + 1 ELSE -1

\* create_features, lines 46-53: the code of one category
CategoryEncoded(c, fitted, encAfter) ==
  IF ~fitted
  THEN Code(encAfter.classes, c)
  ELSE IF c \in Range(encAfter.classes) THEN Code(encAfter.classes, c) ELSE -1

\* is_weekend set on Sundays only
FeatureRowSundayOnly(r, fitted, encAfter) ==
  [month            |-> r.date.month,
   weekday          |-> Weekday(r.date),
   is_weekend       |-> IF Weekday(r.date) \in {6} THEN 1 ELSE 0,
   quarter          |-> Quarter(r.date),
   day_of_month     |-> r.date.day,
   is_month_start   |-> IF r.date.day <= 7 THEN 1 ELSE 0,
   is_month_end     |-> IF r.date.day >= 24 THEN 1 ELSE 0,
   category_encoded |-> CategoryEncoded(r.category, fitted, encAfter),
   category         |-> r.category,
   amount           |-> r.amount,
   date             |-> r.date,
   transaction_type |-> r.transaction_type]

\* create_features, lines 36-43 and 46-53: the columns added to one row
FeatureRow(r, fitted, encAfter) ==
  [month            |-> r.date.month,
   weekday          |-> Weekday(r.date),
   is_weekend       |-> IF Weekday(r.date) \in {5, 6} THEN 1 ELSE 0,
   quarter          |-> Quarter(r.date),
   day_of_month     |-> r.date.day,
   is_month_start   |-> IF r.date.day <= 7 THEN 1 ELSE 0,
   is_month_end     |-> IF r.date.day >= 24 THEN 1 ELSE 0,
   category_encoded |-> CategoryEncoded(r.category, fitted, encAfter),
   category         |-> r.category,
   amount           |-> r.amount,
   date             |-> r.date,
   transaction_type |-> r.transaction_type]

\* create_features: the frame with its feature columns, and the encoder it leaves
create_features(df, fitted, enc) ==
  LET e == EncoderAfter(df, fitted, enc)
  IN  [df  |-> AsSeq([i \in 1..Len(df) |-> FeatureRow(df[i], fitted, e)]),
       enc |-> e]

\* df[self.feature_columns]: one row as the sequence of its values in column order
Project(row, fc) == AsSeq([i \in 1..Len(fc) |-> row[fc[i]]])

---------------------------------------------------------------------------
(* prepare_data *)

\* a record with a positive expense yields its expense row only
SplitPairedExclusive(recs) ==
  LET expense_data == SelectSeq(recs, LAMBDA r : r.total_expense > 0)
      income_data  == SelectSeq(recs, LAMBDA r : r.total_income > 0
                                                   /\ ~(r.total_expense > 0))
  IN  [i \in 1..Len(expense_data) |->
         [expense_data[i] EXCEPT !.amount = expense_data[i].total_expense,
                                 !.transaction_type = "expense"]]
      \o
      [i \in 1..Len(income_data) |->
         [income_data[i] EXCEPT !.amount = income_data[i].total_income,
                                !.transaction_type = "income"]]

\* lines 65-88: one row per positive expense, then one per positive income
SplitPaired(recs) ==
  LET expense_data == SelectSeq(recs, LAMBDA r : r.total_expense > 0)
      income_data  == SelectSeq(recs, LAMBDA r : r.total_income > 0)
  IN  [i \in 1..Len(expense_data) |->
         [expense_data[i] EXCEPT !.amount = expense_data[i].total_expense,
                                 !.transaction_type = "expense"]]
      \o
      [i \in 1..Len(income_data) |->
         [income_data[i] EXCEPT !.amount = income_data[i].total_income,
                                !.transaction_type = "income"]]

\* return None, None
NoPrepared(enc) ==
  [none |-> TRUE, raised |-> FALSE, X |-> <<>>, y |-> <<>>, enc |-> enc,
   df |-> <<>>]

\* an exception leaves prepare_data: the KeyError of lines 81 and 83 (a column
\* selected that the frame lacks) or the error pd.to_datetime raises on line 34
PrepareRaised(enc) ==
  [none |-> FALSE, raised |-> TRUE, X |-> <<>>, y |-> <<>>, enc |-> enc,
   df |-> <<>>]

\* prepare_data: (X, y) or (None, None), and the encoder create_features leaves
prepare_data(recs, cols, fitted, enc, fc) ==
  IF recs = <<>> THEN NoPrepared(enc)
  ELSE
    LET paired == {"total_expense", "total_income"} \subseteq cols
        df1    == IF paired THEN SplitPaired(recs) ELSE recs
        cols1  == IF paired THEN {"date", "category", "amount", "transaction_type"}
                  ELSE cols
        df2    == SelectSeq(df1, LAMBDA r : r.amount > 0)
    IN  IF paired /\ df1 = <<>> THEN NoPrepared(enc)
        ELSE IF paired /\ ~({"date", "category"} \subseteq cols)
        THEN PrepareRaised(enc)
        ELSE IF ~({"date", "category", "amount"} \subseteq cols1) THEN NoPrepared(enc)
        ELSE IF df2 = <<>> THEN NoPrepared(enc)
        ELSE IF \E i \in 1..Len(df2) : ~Parseable(df2[i].date)
        THEN PrepareRaised(enc)
        ELSE
          LET cf == create_features(df2, fitted, enc)
          IN  [none |-> FALSE, raised |-> FALSE,
               X    |-> AsSeq([i \in 1..Len(cf.df) |-> Project(cf.df[i], fc)]),
               y    |-> AsSeq([i \in 1..Len(cf.df) |-> cf.df[i].amount]),
               enc  |-> cf.enc,
               df   |-> cf.df]

---------------------------------------------------------------------------
(* The estimator and train *)

\* train_test_split(test_size=0.2): the number of held-out rows, ceil(0.2 * n)
TestSize(n) == (2 * n + 9) \div 10

\* train_test_split(random_state=42): the seeded shuffle, a fixed permutation of 1..n
Permutation(n) == AsSeq([i \in 1..n |-> n + 1 - i])

\* train_test_split: the first TestSize rows of the shuffle are held out
train_test_split(X, y) ==
  LET n    == Len(X)
      perm == Permutation(n)
      nt   == TestSize(n)
  IN  [X_test  |-> AsSeq([i \in 1..nt |-> X[perm[i]]]),
       y_test  |-> AsSeq([i \in 1..nt |-> y[perm[i]]]),
       X_train |-> AsSeq([i \in 1..(n - nt) |-> X[perm[nt + i]]]),
       y_train |-> AsSeq([i \in 1..(n - nt) |-> y[perm[nt + i]]])]

\* RandomForestRegressor.fit: the fitted estimator is a function of its training data
Fit(X_train, y_train) == [fitted |-> TRUE, X |-> X_train, y |-> y_train]

\* the number of feature positions on which two rows agree
Agree(a, b) == Cardinality({i \in 1..Len(a) : a[i] = b[i]})

RECURSIVE MaxSeq(_)
MaxSeq(s) == IF Len(s) = 1 THEN s[1] ELSE Max(Head(s), MaxSeq(Tail(s)))

\* RandomForestRegressor.predict raises on an unfitted estimator and on a row
\* whose number of features differs from the one it was fitted on
PredictRaises(m, x) == ~m.fitted \/ Len(x) # Len(m.X[1])

\* RandomForestRegressor.predict of one row: the mean target of the training rows
\* closest to it (a value between the smallest and the largest training target)
Predict(m, x) ==
  LET ag   == AsSeq([i \in 1..Len(m.X) |-> Agree(m.X[i], x)])
      best == MaxSeq(ag)
      near == {i \in 1..Len(m.X) : ag[i] = best}
  IN  SumSeq(AsSeq([i \in 1..Len(m.X) |-> IF i \in near THEN m.y[i] ELSE 0]))
        \div Cardinality(near)

\* importances that are not normalised: each of them 1
ImportanceSumUnnormalised(m) == 1000 * Len(m.X[1])

\* feature_importances_ in thousandths: they sum to 1, or are all 0 when no tree
\* of the forest splits (every training target equal)
ImportanceSum(m) == IF \A i \in 1..Len(m.y) : m.y[i] = m.y[1] THEN 0 ELSE 1000

\* mean_absolute_error(y_test, y_pred), in whole units
MeanAbsoluteError(y_test, y_pred) ==
  SumSeq(AsSeq([i \in 1..Len(y_test) |->
                  IF y_test[i] > y_pred[i] THEN y_test[i] - y_pred[i]
                  ELSE y_pred[i] - y_test[i]])) \div Len(y_test)

\* r2_score(y_test, y_pred) = 1 - ss_res / ss_tot, kept as the pair of the residual
\* sum of squares and the total sum of squares, both times n * n
R2Parts(y_test, y_pred) ==
  LET n == Len(y_test)
      t == SumSeq(y_test)
  IN  << n * n * SumSeq(AsSeq([i \in 1..n |->
                                 (y_test[i] - y_pred[i]) * (y_test[i] - y_pred[i])])),
         SumSeq(AsSeq([i \in 1..n |->
                         (n * y_test[i] - t) * (n * y_test[i] - t)])) >>

\* where the try block of train raises, if anywhere: "fit" is a fault of lines
\* 122-127 (an infinite amount among the training rows makes fit reject its
\* input), "metrics" one of lines 131-133 (an infinite amount among the held-out
\* rows makes mean_absolute_error raise)
Faults == {"none", "fit", "metrics"}

\* the gate off by one: ten rows are refused as well
TooFewRowsInclusive(X) == Len(X) <= MinSamples

\* train, line 117: the minimum-data gate
TooFewRows(X) == Len(X) < MinSamples

\* train, lines 127-128: what a fit that returns assigns
FitAssign(st, m) == [st EXCEPT !.model = m, !.is_fitted = TRUE]

\* train: the status it returns (or raised: the exception of prepare_data, called
\* on line 112 outside the try block, leaves train) and the instance state it
\* leaves
train(st, id, fault) ==
  LET p  == prepare_data(Records(id), Columns(id), st.is_fitted,
                         st.category_encoder, st.feature_columns)
      s0 == [st EXCEPT !.category_encoder = p.enc]
  IN  IF p.raised
      THEN [ok |-> FALSE, msg |-> "", st |-> s0, mae |-> 0, r2 |-> <<0, 0>>,
            rows |-> 0,
            raised |-> TRUE]
      ELSE IF p.none
      THEN [ok |-> FALSE, msg |-> "No valid data for training", st |-> s0,
            mae |-> 0, r2 |-> <<0, 0>>,
            rows |-> 0, raised |-> FALSE]
      ELSE IF TooFewRows(p.X)
      THEN [ok |-> FALSE, msg |-> "Insufficient data for training", st |-> s0,
            mae |-> 0, r2 |-> <<0, 0>>,
            rows |-> Len(p.X), raised |-> FALSE]
      ELSE
        LET sp == train_test_split(p.X, p.y)
            m  == Fit(sp.X_train, sp.y_train)
            yp == AsSeq([i \in 1..Len(sp.X_test) |-> Predict(m, sp.X_test[i])])
        IN  IF fault = "fit"
            THEN [ok |-> FALSE, msg |-> "Training failed", st |-> s0,
                  mae |-> 0, r2 |-> <<0, 0>>,
            rows |-> Len(p.X), raised |-> FALSE]
            ELSE IF fault = "metrics"
            THEN [ok |-> FALSE, msg |-> "Training failed",
                  st |-> FitAssign(s0, m), mae |-> 0, r2 |-> <<0, 0>>,
            rows |-> Len(p.X),
                  raised |-> FALSE]
            ELSE [ok |-> TRUE, msg |-> "Model trained successfully",
                  st |-> FitAssign(s0, m),
                  mae |-> MeanAbsoluteError(sp.y_test, yp),
                  r2 |-> R2Parts(sp.y_test, yp), rows |-> Len(p.X),
                  raised |-> FALSE]

---------------------------------------------------------------------------
(* predict_category and predict_next_month *)

TransactionTypes == {"expense", "income"}

\* target_month arguments; 0 stands for None (the default)
TargetMonths == {0, 1, 13}

\* the values datetime.now() returns during one predict_category call, in the
\* order they are read: at line 146 (read only when target_month is None) and at
\* line 155; the second is never earlier than the first
Dates ==
  { << [year |-> 2024, month |-> 7, day |-> 15],
       [year |-> 2024, month |-> 7, day |-> 15] >>,
    << [year |-> 2024, month |-> 11, day |-> 30],
       [year |-> 2024, month |-> 12, day |-> 1] >> }

\* with a target month given the clock is read once, at line 155
OneRead(target_month, now) == target_month # 0 => now[1] = now[2]

\* the confidence without its clamp
ConfidenceUnclamped(m) == ImportanceSum(m) \div Len(m.X[1])

\* predict_category, line 171: min(95, max(50, mean(importances) * 100))
Confidence(m) ==
  Min(Tenths(ConfHi), Max(Tenths(ConfLo), ImportanceSum(m) \div Len(m.X[1])))

\* the membership test of line 150 left out
KnownCategoryAny(enc, category) == TRUE

\* predict_category, line 150: category in self.category_encoder.classes_
KnownCategory(enc, category) == category \in Range(enc.classes)

\* the quarter derived again from the month written at line 163
PredictionRowRederived(row, target) ==
  [row EXCEPT !.month = target, !.quarter = ((target - 1) \div 3) + 1]

\* predict_category, line 163: prediction_data['month'] = target_month
PredictionRow(row, target) == [row EXCEPT !.month = target]

\* predict_category, lines 145-146 and 154-166: the vector X_pred handed to the
\* estimator
X_pred(st, category, transaction_type, target_month, now) ==
  LET target == IF target_month = 0 THEN now[1].month ELSE target_month
      df     == <<[date |-> now[2], category |-> category, amount |-> 100,
                   total_expense |-> 0, total_income |-> 0,
                   transaction_type |-> transaction_type]>>
      cf     == create_features(df, st.is_fitted, st.category_encoder)
  IN  Project(PredictionRow(cf.df[1], target), st.feature_columns)

\* predict_category: whether the call gets as far as line 166
ReachesEstimator(st, category) ==
  /\ st.is_fitted
  /\ st.category_encoder.fitted
  /\ KnownCategory(st.category_encoder, category)

\* predict_category: (amount, confidence in tenths of a percent); every exception
\* of lines 148-173 ends in the (0, 0) of line 176
predict_category(st, category, transaction_type, target_month, now) ==
  IF ~st.is_fitted THEN <<0, 0>>
  ELSE
    IF ~st.category_encoder.fitted THEN <<0, 0>>
    ELSE IF ~KnownCategory(st.category_encoder, category) THEN <<0, 0>>
    ELSE
      LET X == X_pred(st, category, transaction_type, target_month, now)
      IN  IF PredictRaises(st.model, X) THEN <<0, 0>>
          ELSE <<Max(0, Predict(st.model, X)), Confidence(st.model)>>

\* predict_category: the encoder it leaves (create_features, reached at line 162
\* only, fits the encoder when is_fitted is false)
EncoderAfterPredict(st, category, now) ==
  IF st.is_fitted /\ st.category_encoder.fitted
     /\ KnownCategory(st.category_encoder, category)
  THEN create_features(<<[date |-> now[2], category |-> category, amount |-> 100,
                          total_expense |-> 0, total_income |-> 0,
                          transaction_type |-> "expense"]>>,
                       st.is_fitted, st.category_encoder).enc
  ELSE st.category_encoder

\* the most datetime.now() calls one predict_next_month makes: two on line 183
\* and one on line 155 in each of the two predict_category calls per category
ClockLen == 2 + 2 * Cardinality(Categories)

\* a clock that shows day d1 up to its read number at - 1 and day d2 from then on
Reads(d1, d2, at) == AsSeq([n \in 1..ClockLen |-> IF n < at THEN d1 ELSE d2])

\* the values datetime.now() returns during one predict_next_month call, in the
\* order they are read: on line 183 first by the condition, then by the
\* expression "month + 1", after that on line 155 by each predict_category call
\* that gets there; no read is earlier than the one before it
ClockReads ==
  { Reads([year |-> 2024, month |-> 7, day |-> 15],
          [year |-> 2024, month |-> 7, day |-> 15], 1),
    Reads([year |-> 2024, month |-> 12, day |-> 25],
          [year |-> 2024, month |-> 12, day |-> 25], 1),
    Reads([year |-> 2024, month |-> 11, day |-> 30],
          [year |-> 2024, month |-> 12, day |-> 1], 2),
    Reads([year |-> 2024, month |-> 11, day |-> 30],
          [year |-> 2024, month |-> 12, day |-> 1], 4) }

\* predict_next_month, line 183:
\* datetime.now().month + 1 if datetime.now().month < 12 else 1
NextMonth(clock) == IF clock[1].month < 12 THEN clock[2].month + 1 ELSE 1

\* every category reported, whatever the two amounts
IncludedAlways(expense_pred, income_pred) == TRUE

\* predict_next_month, line 191: if expense_pred > 0 or income_pred > 0
Included(expense_pred, income_pred) == expense_pred > 0 \/ income_pred > 0

\* the number of clock reads of one predict_category call with a target month
ReadsOf(st, category) == IF ReachesEstimator(st, category) THEN 1 ELSE 0

\* predict_next_month, lines 186-199: the entry of one category, or none; n is
\* the number of the next clock read
Entry(st, category, clock, n) ==
  LET k == ReadsOf(st, category)
      e == predict_category(st, category, "expense", NextMonth(clock),
                            <<clock[n], clock[n]>>)
      i == predict_category(st, category, "income", NextMonth(clock),
                            <<clock[n + k], clock[n + k]>>)
  IN  IF Included(e[1], i[1])
      THEN << [category           |-> category,
               predicted_expense  |-> e[1],
               predicted_income   |-> i[1],
               expense_confidence |-> e[2],
               income_confidence  |-> i[2],
               transaction_type   |-> IF e[1] > i[1] THEN "expense" ELSE "income"] >>
      ELSE <<>>

RECURSIVE Entries(_, _, _, _)
Entries(st, categories, clock, n) ==
  IF categories = <<>> THEN <<>>
  ELSE Entry(st, Head(categories), clock, n)
       \o Entries(st, Tail(categories), clock, n + 2 * ReadsOf(st, Head(categories)))

\* predict_next_month
predict_next_month(st, categories, clock) ==
  IF ~st.is_fitted THEN <<>> ELSE Entries(st, categories, clock, 3)

\* the categories asked of predict_category
QueryCategories == {"Food", "Salary", "Gift"}

\* the category lists handed to predict_next_month
CategoryQueries == { <<>>, <<"Food", "Gift">>, <<"Salary", "Rent", "Food">> }

---------------------------------------------------------------------------
(* save_model, load_model and the files *)

\* a path is its directory part (os.path.dirname) and its file name
Paths ==
  { [dir |-> "model", base |-> "expense_predictor.joblib"],
    [dir |-> "",      base |-> "expense_predictor.joblib"] }

NoPath == [dir |-> "", base |-> ""]

\* save_model, lines 213-218: the keys of the saved dictionary, in the order
\* load_model reads them (lines 234-237)
ModelKeys == <<"model", "category_encoder", "feature_columns", "is_fitted">>

\* a file: absent, unpicklable ("corrupt"), or a pickled dictionary holding
\* some keys. History: by = "save" marks the files save_model wrote, origin is the
\* state of the predictor that wrote the file
Absent ==
  [kind |-> "absent", keys |-> {}, data |-> FreshState, by |-> "none",
   origin |-> FreshState]

Corrupt ==
  [kind |-> "corrupt", keys |-> {}, data |-> FreshState, by |-> "other",
   origin |-> FreshState]

\* save_model, lines 213-218: the dictionary model_data
ModelData(st) ==
  [model            |-> st.model,
   category_encoder |-> st.category_encoder,
   feature_columns  |-> st.feature_columns,
   is_fitted        |-> st.is_fitted]

\* save_model, line 220: the file joblib.dump writes
Dump(st) ==
  [kind |-> "dict", keys |-> Range(ModelKeys), data |-> ModelData(st), by |-> "save",
   origin |-> st]

\* the state of another trained predictor, whose values the files found at start hold
OtherData ==
  [fmt |-> "amount", cats |-> <<"Salary", "Rent">>, n |-> MinSamples,
   defect |-> "none"]

OtherState == train(FreshState, OtherData, "none").st

\* files found at start: corrupt ones, and dictionaries another writer left with
\* all the keys or with one of them missing
OtherFiles ==
  {Corrupt} \cup
  { [kind |-> "dict", keys |-> ks, data |-> OtherState, by |-> "other",
     origin |-> OtherState] :
      ks \in {k \in SUBSET Range(ModelKeys) : Cardinality(k) >= Len(ModelKeys) - 1} }

\* every key read with a default instead of a KeyError
KeysReadAll(f) == Len(ModelKeys)

\* load_model, lines 234-237: the number of keys read before a KeyError (all of
\* them when none is missing)
KeysRead(f) ==
  IF \A i \in 1..Len(ModelKeys) : ModelKeys[i] \in f.keys
  THEN Len(ModelKeys)
  ELSE (CHOOSE i \in 1..Len(ModelKeys) :
          /\ ModelKeys[i] \notin f.keys
          /\ \A j \in 1..(i - 1) : ModelKeys[j] \in f.keys) - 1

\* a load that leaves the encoder of the instance in place
LoadAssignKeepEncoder(st, f) ==
  [model            |-> f.data.model,
   category_encoder |-> st.category_encoder,
   feature_columns  |-> f.data.feature_columns,
   is_fitted        |-> f.data.is_fitted]

\* load_model, lines 234-237: the assignments made, one per key read
LoadAssign(st, f) ==
  LET k == KeysRead(f)
  IN  [model            |-> IF k >= 1 THEN f.data.model ELSE st.model,
       category_encoder |-> IF k >= 2 THEN f.data.category_encoder
                            ELSE st.category_encoder,
       feature_columns  |-> IF k >= 3 THEN f.data.feature_columns
                            ELSE st.feature_columns,
       is_fitted        |-> IF k >= 4 THEN f.data.is_fitted ELSE st.is_fitted]

\* load_model: the status it returns and the instance state it leaves
load_model(st, f) ==
  IF f.kind = "absent"
  THEN [ok |-> FALSE, msg |-> "Model file not found", st |-> st]
  ELSE IF f.kind = "corrupt"
  THEN [ok |-> FALSE, msg |-> "Failed to load model", st |-> st]
  ELSE IF KeysRead(f) < Len(ModelKeys)
  THEN [ok |-> FALSE, msg |-> "Failed to load model", st |-> LoadAssign(st, f)]
  ELSE [ok |-> TRUE, msg |-> "Model loaded successfully", st |-> LoadAssign(st, f)]

\* save_model: the status it returns, and the file and directory it leaves
save_model(st, path, file, ds) ==
  IF ~st.is_fitted
  THEN [ok |-> FALSE, msg |-> "Model not trained yet", file |-> file, dirs |-> ds]
  ELSE IF path.dir = ""
  THEN [ok |-> FALSE, msg |-> "Failed to save model", file |-> file, dirs |-> ds]
  ELSE [ok |-> TRUE, msg |-> "Model saved", file |-> Dump(st),
        dirs |-> ds \cup {path.dir}]

---------------------------------------------------------------------------
(* The state machine *)

\* the attributes of the instance that differ between two states of it
Changed(st1, st2) == {k \in Range(ModelKeys) : st1[k] # st2[k]}

\* history of the last call: its arguments, what it returned (raised: an exception
\* left the call instead; none, prepared and X: the (None, None), the rows and the
\* feature matrix of prepare_data), what the instance was before it (was_fitted, was_classes,
\* had_succeeded; repeat: the call before it was a train on the same dataset) and
\* what the call changed (the attributes in changed; wrote: the file at path)
NoCall ==
  [op |-> "init", ok |-> FALSE, msg |-> "", data |-> NoData, fault |-> "none",
   rows |-> 0, mae |-> 0, r2 |-> <<0, 0>>, repeat |-> FALSE,
   category |-> "", transaction_type |-> "", target_month |-> 0,
   now |-> <<DateSeq[1], DateSeq[1]>>, clock |-> <<>>,
   categories |-> <<>>, path |-> NoPath,
   result |-> <<0, 0>>, predictions |-> <<>>,
   raised |-> FALSE, none |-> FALSE, prepared |-> <<>>, X |-> <<>>,
   was_fitted |-> FALSE, was_classes |-> <<>>, had_succeeded |-> FALSE,
   changed |-> {}, wrote |-> FALSE]

\* the history record of a call of op that leaves the instance in state st
Call(op, st) ==
  [NoCall EXCEPT !.op = op, !.was_fitted = is_fitted,
                 !.was_classes = category_encoder.classes,
                 !.had_succeeded = succeeded, !.changed = Changed(Self, st)]

\* no train call is in progress
Idle == [pc |-> "idle", data |-> NoData, pre |-> FreshState]

SetSelf(st) ==
  /\ model' = st.model
  /\ category_encoder' = st.category_encoder
  /\ feature_columns' = st.feature_columns
  /\ is_fitted' = st.is_fitted

\* at start: a freshly constructed predictor, and possibly a file left by another
\* writer at the default path
Init ==
  /\ model = UnfittedModel
  /\ category_encoder = UnfittedEncoder
  /\ feature_columns = FeatureColumns
  /\ is_fitted = FALSE
  /\ \E f \in OtherFiles \cup {Absent} :
       fs = [p \in Paths |-> IF p.dir # "" THEN f ELSE Absent]
  /\ dirs = {p.dir : p \in {q \in Paths : fs[q].kind # "absent" /\ q.dir # ""}}
  /\ last = NoCall
  /\ succeeded = FALSE
  /\ running = Idle

\* ExpensePredictor(): another instance takes the place of this one
New ==
  /\ SetSelf(FreshState)
  /\ last' = [Call("new", FreshState) EXCEPT !.ok = TRUE]
  /\ succeeded' = FALSE
  /\ UNCHANGED <<fs, dirs, running>>

\* a fault of the try block needs a call that gets there
Train(id, fault) ==
  /\ fault # "none" => (id.n >= MinSamples /\ id.defect = "none")
  /\ \E r \in {train(Self, id, fault)} :
      /\ fault # "none" => r.rows >= MinSamples
      /\ SetSelf(r.st)
      /\ last' = [Call("train", r.st) EXCEPT !.ok = r.ok, !.msg = r.msg,
                    !.data = id, !.fault = fault, !.rows = r.rows, !.mae = r.mae,
                    !.r2 = r.r2, !.raised = r.raised,
                    !.repeat = (last.op = "train" /\ last.data = id
                                /\ last.fault = fault)]
      /\ succeeded' = (succeeded \/ r.ok)
      /\ UNCHANGED <<fs, dirs, running>>

\* the columns of the prepared frame that identify a row
PreparedRow(r) ==
  [date |-> r.date, category |-> r.category, amount |-> r.amount,
   transaction_type |-> r.transaction_type]

PrepareData(id) ==
  \E r \in {prepare_data(Records(id), Columns(id), is_fitted, category_encoder,
                         feature_columns)} :
      /\ category_encoder' = r.enc
      /\ last' = [Call("prepare_data", [Self EXCEPT !.category_encoder = r.enc])
                    EXCEPT !.ok = ~r.raised, !.data = id, !.rows = Len(r.X),
                           !.raised = r.raised, !.none = r.none, !.X = r.X,
                           !.prepared =
                             AsSeq([i \in 1..Len(r.df) |-> PreparedRow(r.df[i])])]
      /\ UNCHANGED <<model, feature_columns, is_fitted, fs, dirs, succeeded,
                     running>>

PredictCategory(category, transaction_type, target_month, now) ==
  \E e \in {EncoderAfterPredict(Self, category, now)} :
      /\ OneRead(target_month, now)
      /\ category_encoder' = e
      /\ last' = [Call("predict_category", [Self EXCEPT !.category_encoder = e])
                    EXCEPT !.ok = TRUE, !.category = category,
                           !.transaction_type = transaction_type,
                           !.target_month = target_month, !.now = now,
                           !.X = IF ReachesEstimator(Self, category)
                                 THEN <<X_pred(Self, category, transaction_type,
                                               target_month, now)>>
                                 ELSE <<>>,
                           !.result = predict_category(Self, category,
                                        transaction_type, target_month, now)]
      /\ UNCHANGED <<model, feature_columns, is_fitted, fs, dirs, succeeded,
                     running>>

PredictNextMonth(categories, clock) ==
  /\ last' = [Call("predict_next_month", Self)
                EXCEPT !.ok = TRUE, !.categories = categories,
                       !.clock = clock,
                       !.target_month = IF is_fitted THEN NextMonth(clock) ELSE 0,
                       !.predictions = predict_next_month(Self, categories, clock)]
  /\ UNCHANGED <<model, category_encoder, feature_columns, is_fitted, fs, dirs,
                 succeeded, running>>

SaveModel(path) ==
  \E r \in {save_model(Self, path, fs[path], dirs)} :
      /\ fs' = [fs EXCEPT ![path] = r.file]
      /\ dirs' = r.dirs
      /\ last' = [Call("save_model", Self) EXCEPT !.ok = r.ok, !.msg = r.msg,
                    !.path = path, !.wrote = (r.file # fs[path])]
      /\ UNCHANGED <<model, category_encoder, feature_columns, is_fitted,
                     succeeded, running>>

LoadModel(path) ==
  \E r \in {load_model(Self, fs[path])} :
      /\ SetSelf(r.st)
      /\ last' = [Call("load_model", r.st) EXCEPT !.ok = r.ok, !.msg = r.msg,
                    !.path = path]
      /\ succeeded' = (succeeded \/ r.ok)
      /\ UNCHANGED <<fs, dirs, running>>

Next ==
  \/ New
  \/ \E id \in DataIds, fault \in Faults : Train(id, fault)
  \/ \E id \in DataIds : PrepareData(id)
  \/ \E c \in QueryCategories, t \in TransactionTypes, m \in TargetMonths,
        d \in Dates :
       PredictCategory(c, t, m, d)
  \/ \E cs \in CategoryQueries, k \in ClockReads : PredictNextMonth(cs, k)
  \/ \E p \in Paths : SaveModel(p)
  \/ \E p \in Paths : LoadModel(p)

Spec == Init /\ [][Next]_vars

---------------------------------------------------------------------------
(* train on one thread, predict_category on another: the instance has no lock, *)
(* so train is visible to the other thread statement by statement              *)

\* the datasets of the concurrent train calls
ConcurrentData ==
  { id \in DataIds : id.defect = "none" /\ id.n \in {MinSamples - 1, MinSamples} }

\* RandomForestRegressor.fit works on self.model in place: it empties the forest,
\* grows the trees and puts them in. The estimator while its trees are grown
EmptyForest == [fitted |-> TRUE, X |-> <<>>, y |-> <<>>]

\* train, lines 112-118: prepare_data (which fits the encoder of an untrained
\* instance) and the two early returns
TrainPrepare(id) ==
  /\ running.pc = "idle"
  /\ \E r \in {train(Self, id, "none")} :
       IF r.ok
       THEN /\ category_encoder' = r.st.category_encoder
            /\ running' = [pc |-> "prepared", data |-> id, pre |-> Self]
            /\ UNCHANGED <<model, feature_columns, is_fitted, last, succeeded>>
       ELSE /\ SetSelf(r.st)
            /\ last' = [Call("train", r.st) EXCEPT !.ok = r.ok, !.msg = r.msg,
                          !.data = id, !.rows = r.rows, !.raised = r.raised]
            /\ UNCHANGED <<succeeded, running>>
  /\ UNCHANGED <<fs, dirs>>

\* train, line 127: fit begins and empties the forest of self.model
TrainFitBegin ==
  /\ running.pc = "prepared"
  /\ model' = EmptyForest
  /\ running' = [running EXCEPT !.pc = "fitting"]
  /\ UNCHANGED <<category_encoder, feature_columns, is_fitted, fs, dirs, last,
                 succeeded>>

\* train, line 127: fit returns, the new trees are in place
TrainFitEnd ==
  /\ running.pc = "fitting"
  /\ model' = train(running.pre, running.data, "none").st.model
  /\ running' = [running EXCEPT !.pc = "fitted"]
  /\ UNCHANGED <<category_encoder, feature_columns, is_fitted, fs, dirs, last,
                 succeeded>>

\* train, lines 128-135: the trained flag, the metrics and the return
TrainFinish ==
  /\ running.pc = "fitted"
  /\ \E r \in {train(running.pre, running.data, "none")} :
       /\ is_fitted' = TRUE
       /\ last' = [Call("train", [Self EXCEPT !.is_fitted = TRUE])
                     EXCEPT !.ok = r.ok, !.msg = r.msg, !.data = running.data,
                            !.rows = r.rows, !.mae = r.mae, !.r2 = r.r2]
  /\ succeeded' = TRUE
  /\ running' = Idle
  /\ UNCHANGED <<model, category_encoder, feature_columns, fs, dirs>>

\* what predict_category can return while the other thread is at pc. An estimator
\* read while fit is growing its trees has no tree to average: line 167 yields no
\* number (max(0, nan) is 0, confidence 50) or raises (line 176); both outcomes
\* are kept
PredictOutcomes(st, pc, category, transaction_type, target_month, now) ==
  IF /\ pc = "fitting"
     /\ st.is_fitted
     /\ st.category_encoder.fitted
     /\ KnownCategory(st.category_encoder, category)
  THEN { <<0, Tenths(ConfLo)>>, <<0, 0>> }
  ELSE { predict_category(st, category, transaction_type, target_month, now) }

\* predict_category on the other thread
ConcurrentPredict(category, transaction_type, target_month, now) ==
  /\ OneRead(target_month, now)
  /\ \E res \in PredictOutcomes(Self, running.pc, category, transaction_type,
                                 target_month, now) :
       last' = [Call("predict_category", Self)
                  EXCEPT !.ok = TRUE, !.category = category,
                         !.transaction_type = transaction_type,
                         !.target_month = target_month, !.now = now,
                         !.result = res]
  /\ UNCHANGED <<model, category_encoder, feature_columns, is_fitted, fs, dirs,
                 succeeded, running>>

NextConcurrent ==
  \/ \E id \in ConcurrentData : TrainPrepare(id)
  \/ TrainFitBegin
  \/ TrainFitEnd
  \/ TrainFinish
  \/ \E c \in QueryCategories, t \in TransactionTypes, m \in TargetMonths,
        d \in Dates :
       ConcurrentPredict(c, t, m, d)

SpecConcurrent == Init /\ [][NextConcurrent]_vars

---------------------------------------------------------------------------
(* Reference definitions of the claims, computed from the input records *)

\* the usable rows of a dataset: one per positive amount, or per positive expense
\* and per positive income in the paired format; none when a required column is
\* absent
UsableRowCount(id) ==
  LET recs == Records(id)
  IN  IF id.defect \in {"no_date", "no_category", "no_amount"} THEN 0
      ELSE IF id.fmt = "paired"
      THEN Cardinality({i \in 1..Len(recs) : recs[i].total_expense > 0})
           + Cardinality({i \in 1..Len(recs) : recs[i].total_income > 0})
      ELSE Cardinality({i \in 1..Len(recs) : recs[i].amount > 0})

\* the distinct categories of the usable rows of a dataset
UsableCategories(id) ==
  LET recs == Records(id)
  IN  { recs[i].category : i \in
          { j \in 1..Len(recs) :
              IF id.fmt = "paired"
              THEN recs[j].total_expense > 0 \/ recs[j].total_income > 0
              ELSE recs[j].amount > 0 } }

\* the current vocabulary
Vocabulary == Range(category_encoder.classes)

\* the estimator and the vocabulary derived from a dataset alone
DerivedFrom(id) == train(FreshState, id, "none").st

---------------------------------------------------------------------------
(* Claims *)

\* C1: after any successful train call the vocabulary is exactly the set of
\* distinct categories of the usable rows of that call's dataset.
C1_VocabularyReplaced ==
  (last.op = "train" /\ last.ok) => Vocabulary = UsableCategories(last.data)

\* C2: after a train call either the vocabulary and the estimator are both the
\* ones derived from the call's dataset, or nothing was replaced; a train that
\* returns failure leaves vocabulary, estimator and trained flag untouched.
C2_TrainAtomic ==
  last.op = "train" =>
    /\ \/ last.changed = {}
       \/ /\ category_encoder = DerivedFrom(last.data).category_encoder
          /\ model = DerivedFrom(last.data).model
    /\ ~last.ok => last.changed = {}

\* C3: train returns failure whenever fewer than 10 usable rows remain after
\* preparation, and success on exactly 10 usable rows when nothing in the fitting
\* block faults, whatever the state of the model before the call.
C3_MinimumDataGate ==
  (last.op = "train" /\ ~last.raised) =>
    /\ UsableRowCount(last.data) < MinSamples =>
         /\ ~last.ok
         /\ last.msg \in {"No valid data for training",
                          "Insufficient data for training"}
    /\ (UsableRowCount(last.data) = MinSamples /\ last.fault = "none") =>
         /\ last.ok
         /\ last.msg = "Model trained successfully"

\* C3 witness: exactly 10 usable rows are accepted by a model that was trained
\* before the call.
C3_Witness ==
  /\ last.op = "train"
  /\ UsableRowCount(last.data) = MinSamples
  /\ last.was_fitted
  /\ last.ok

\* C4: a fault inside the fitting block makes train return "Training failed" and
\* leaves the forecaster in the state it had before the call.
C4_FaultKeepsPriorState ==
  (last.op = "train" /\ last.fault # "none") =>
    /\ ~last.ok
    /\ last.msg = "Training failed"
    /\ is_fitted = last.was_fitted
    /\ last.changed = {}

\* C5: as long as no train and no load of the instance has returned success,
\* predict_category returns (0, 0) and predict_next_month the empty sequence.
C5_UntrainedGuard ==
  ~last.had_succeeded =>
    /\ last.op = "predict_category" => last.result = <<0, 0>>
    /\ last.op = "predict_next_month" => last.predictions = <<>>

\* C6: on a trained model predict_category of a category outside the vocabulary
\* returns (0, 0) and changes nothing, for either direction and any target month.
C6_UnknownCategory ==
  (/\ last.op = "predict_category"
   /\ last.was_fitted
   /\ last.category \notin Range(last.was_classes)) =>
    /\ last.result = <<0, 0>>
    /\ last.changed = {}

\* C6 witness: an income query with an explicit target month for a category the
\* trained model does not know.
C6_Witness ==
  /\ last.op = "predict_category"
  /\ last.was_fitted
  /\ last.category \notin Range(last.was_classes)
  /\ last.transaction_type = "income"
  /\ last.target_month # 0

\* C7: on a trained model predict_category of a category of the vocabulary
\* returns a confidence between 50 and 95.
C7_ConfidenceBounds ==
  (/\ last.op = "predict_category"
   /\ last.was_fitted
   /\ last.category \in Range(last.was_classes)) =>
    /\ last.result[2] >= Tenths(ConfLo)
    /\ last.result[2] <= Tenths(ConfHi)

\* C7 witness: a known category is predicted by a model restored by load_model.
C7_Witness ==
  /\ last.op = "predict_category"
  /\ last.was_fitted
  /\ last.category \in Range(last.was_classes)
  /\ last.result[1] > 0
  /\ \E p \in Paths : fs[p].kind = "dict" /\ fs[p].data.model = model

\* C8: save_model before any successful train or load returns "Model not
\* trained yet" and writes nothing; every file save_model wrote records the model
\* as trained.
C8_SaveGuard ==
  /\ (last.op = "save_model" /\ ~last.had_succeeded) =>
       /\ ~last.ok
       /\ last.msg = "Model not trained yet"
       /\ ~last.wrote
  /\ \A p \in Paths : fs[p].by = "save" => fs[p].data.is_fitted

\* C9: loading a file that save_model wrote restores the estimator, the
\* vocabulary, the feature-name ordering and the trained flag of the predictor
\* that saved it, and predict_category returns what that predictor returned, for
\* every category of its vocabulary and both directions.
C9_RoundTrip ==
  (last.op = "load_model" /\ last.ok /\ fs[last.path].by = "save") =>
    LET saved == fs[last.path].origin
    IN  /\ Self = saved
        /\ \A c \in Range(saved.category_encoder.classes), t \in TransactionTypes,
              m \in TargetMonths, d \in Dates :
             predict_category(Self, c, t, m, d) = predict_category(saved, c, t, m, d)

\* C9 witness: a saved file is loaded into a fresh instance.
C9_Witness ==
  /\ last.op = "load_model"
  /\ last.ok
  /\ fs[last.path].by = "save"
  /\ ~last.was_fitted
  /\ last.changed # {}

\* C10: load_model returns "Model file not found" for an absent path and a failure
\* for a file that cannot be unpickled or lacks a required key; it returns success
\* only when all four attributes were restored from the file.
C10_LoadStatus ==
  last.op = "load_model" =>
    LET f == fs[last.path]
    IN  /\ f.kind = "absent" => (~last.ok /\ last.msg = "Model file not found")
        /\ (f.kind = "corrupt" \/ (f.kind = "dict" /\ f.keys # Range(ModelKeys))) =>
             (~last.ok /\ last.msg = "Failed to load model")
        /\ last.ok => /\ f.kind = "dict"
                      /\ f.keys = Range(ModelKeys)
                      /\ Self = f.data

\* C10 witness: a file that lacks its last key is refused.
C10_Witness ==
  /\ last.op = "load_model"
  /\ fs[last.path].kind = "dict"
  /\ "is_fitted" \notin fs[last.path].keys
  /\ ~last.ok

\* C11: the target month predict_next_month passes to predict_category is a month
\* of the calendar, 1..12 and never 13: the month after the current one, and 1
\* when the current month is 12 (the current month being the one the clock
\* showed at either of its reads during the call).
C11_MonthWraparound ==
  (last.op = "predict_next_month" /\ last.was_fitted /\ last.categories # <<>>) =>
    /\ last.target_month \in 1..12
    /\ \E i \in 1..2 :
         last.target_month =
           (IF last.clock[i].month = 12 THEN 1 ELSE last.clock[i].month + 1)

\* the day the clock showed when predict_next_month asked for the prediction of
\* category c in direction t: the categories of the vocabulary asked before c
\* have read the clock twice each, line 183 twice
ReadAt(c, t) ==
  LET pos    == CHOOSE i \in 1..Len(last.categories) : last.categories[i] = c
      before == Cardinality({j \in 1..(pos - 1) :
                               last.categories[j] \in Range(last.was_classes)})
  IN  last.clock[2 + 2 * before + (IF t = "expense" THEN 1 ELSE 2)]

\* the prediction of category c in direction t for the day the clock showed
PredictedAt(c, t) ==
  predict_category(Self, c, t, last.target_month, <<ReadAt(c, t), ReadAt(c, t)>>)

\* C12: predict_next_month computes the expense and the income prediction of each
\* input category and reports the category if and only if at least one of the two
\* amounts is strictly positive; a category outside the vocabulary (both amounts
\* 0) is left out.
C12_InclusionRule ==
  (last.op = "predict_next_month" /\ last.was_fitted) =>
    LET amount(c, t) == PredictedAt(c, t)[1]
        reported == [i \in 1..Len(last.predictions) |-> last.predictions[i].category]
    IN  /\ reported \o <<>> =
             SelectSeq(last.categories,
                       LAMBDA c : amount(c, "expense") > 0 \/ amount(c, "income") > 0)
        /\ \A i \in 1..Len(last.predictions) :
             /\ last.predictions[i].predicted_expense =
                  amount(last.predictions[i].category, "expense")
             /\ last.predictions[i].predicted_income =
                  amount(last.predictions[i].category, "income")
             /\ last.predictions[i].category \in Range(last.was_classes)

\* C12 witness: of the categories asked, one is reported and an unknown one is
\* left out.
C12_Witness ==
  /\ last.op = "predict_next_month"
  /\ last.was_fitted
  /\ Len(last.predictions) > 0
  /\ Len(last.predictions) < Len(last.categories)
  /\ \E i \in 1..Len(last.categories) :
       last.categories[i] \notin Range(last.was_classes)

\* C13: in every entry predict_next_month returns, the tag names the larger of the
\* two predicted amounts: "expense" when the predicted expense is larger, "income"
\* when the predicted income is larger, and "income" only if the predicted income
\* is the larger amount.
C13_DominantTag ==
  last.op = "predict_next_month" =>
    \A i \in 1..Len(last.predictions) :
      LET p == last.predictions[i]
      IN  /\ p.predicted_expense > p.predicted_income => p.transaction_type = "expense"
          /\ p.predicted_income > p.predicted_expense => p.transaction_type = "income"
          /\ p.transaction_type = "income" => p.predicted_income > p.predicted_expense

\* the rows the paired records must yield, record by record
RECURSIVE ExpectedRows(_)
ExpectedRows(recs) ==
  IF recs = <<>> THEN <<>>
  ELSE
    LET r == Head(recs)
    IN  (IF r.total_expense > 0
         THEN << [date |-> r.date, category |-> r.category,
                  amount |-> r.total_expense, transaction_type |-> "expense"] >>
         ELSE <<>>)
        \o
        (IF r.total_income > 0
         THEN << [date |-> r.date, category |-> r.category,
                  amount |-> r.total_income, transaction_type |-> "income"] >>
         ELSE <<>>)
        \o ExpectedRows(Tail(recs))

\* the number of times x occurs in a sequence
Count(seq, x) == Cardinality({i \in 1..Len(seq) : seq[i] = x})

\* C14: from paired records prepare_data yields exactly one row per strictly
\* positive directional amount: two rows for a record with both amounts positive,
\* one for a record with one, none for a record with neither; each row keeps the
\* date and the category of its record and carries the amount of its direction.
C14_PairedSplit ==
  (last.op = "prepare_data" /\ last.data.fmt = "paired"
   /\ last.data.defect = "none") =>
    LET expected == ExpectedRows(Records(last.data))
    IN  /\ ~last.raised
        /\ last.none <=> expected = <<>>
        /\ last.rows = Len(expected)
        /\ Len(last.prepared) = Len(expected)
        /\ \A x \in Range(expected) \cup Range(last.prepared) :
             Count(last.prepared, x) = Count(expected, x)

\* C14 witness: paired records of which one has both amounts positive, one has
\* neither and the others one, prepared into ten rows.
C14_Witness ==
  /\ last.op = "prepare_data"
  /\ last.data.fmt = "paired"
  /\ last.data.defect = "none"
  /\ last.rows = MinSamples
  /\ \E i \in 1..Len(Records(last.data)) :
       /\ Records(last.data)[i].total_expense > 0
       /\ Records(last.data)[i].total_income > 0
  /\ \E i \in 1..Len(Records(last.data)) :
       /\ Records(last.data)[i].total_expense = 0
       /\ Records(last.data)[i].total_income = 0

\* the required columns: date, category, and amount or the expense/income pair
RequiredPresent(id) ==
  /\ {"date", "category"} \subseteq Columns(id)
  /\ \/ "amount" \in Columns(id)
     \/ {"total_expense", "total_income"} \subseteq Columns(id)

\* C15: prepare_data returns (None, None), and raises nothing, whenever a required
\* column is absent from the input or no row with a positive amount remains, in
\* both input formats.
C15_PrepareEmptyResult ==
  (last.op = "prepare_data"
   /\ (~RequiredPresent(last.data) \/ UsableRowCount(last.data) = 0)) =>
    /\ ~last.raised
    /\ last.none

\* C16: train, predict_category, predict_next_month, save_model and load_model
\* always return a status or a result; no exception leaves any of them.
C16_NothingFatal ==
  last.op \in {"train", "predict_category", "predict_next_month", "save_model",
               "load_model"} =>
    ~last.raised

\* C17: a train call that directly follows a train call on the same dataset
\* returns what the first returned, with the same MAE and R2, and leaves the
\* instance (estimator with its feature matrix, targets and split, vocabulary,
\* trained flag) as the first call left it.
C17_IdempotentRetrain ==
  [][ (last'.op = "train" /\ last'.repeat) =>
        /\ last'.ok = last.ok
        /\ last'.msg = last.msg
        /\ last'.raised = last.raised
        /\ last'.rows = last.rows
        /\ last'.mae = last.mae
        /\ last'.r2 = last.r2
        /\ Self' = Self ]_vars

\* C17 witness: the second of two successive successful trains on the same
\* two-category dataset, with a non-zero MAE.
C17_Witness ==
  /\ last.op = "train"
  /\ last.repeat
  /\ last.ok
  /\ last.mae > 0
  /\ Len(last.data.cats) > 1

\* the category code of a row of a feature matrix
CodeOf(row, fc) ==
  row[CHOOSE i \in 1..Len(fc) : fc[i] = "category_encoded"]

\* C18: after every successful train each row of the matrix the estimator was
\* fitted on carries a code of the current vocabulary (0 or more), never the
\* sentinel -1 of an unknown category, also when the model was trained before on
\* other categories.
C18_NoSentinelInFit ==
  (last.op = "train" /\ last.ok) =>
    \A i \in 1..Len(model.X) :
      CodeOf(model.X[i], feature_columns) \in 0..(Len(category_encoder.classes) - 1)

\* C20: once the model is trained its vocabulary gives distinct categories
\* distinct codes, and no call changes it except a train or a load_model that
\* returns success: predict_category, predict_next_month, save_model,
\* prepare_data and every failing call leave it as it is.
C20_VocabularyStable ==
  [][ /\ is_fitted' =>
           \A i, j \in 1..Len(category_encoder'.classes) :
             category_encoder'.classes[i] = category_encoder'.classes[j] => i = j
      /\ (is_fitted /\ last'.op # "new" /\ category_encoder' # category_encoder) =>
           (last'.op \in {"train", "load_model"} /\ last'.ok) ]_vars

\* C19: a predict_category that runs while a train call is in progress on the
\* same instance returns what it returns in the state before that train call or
\* what it returns in the state the train call leaves, never anything else.
C19_PredictSeesWholeState ==
  (last.op = "predict_category" /\ running.pc # "idle") =>
    LET post == train(running.pre, running.data, "none").st
    IN  last.result \in
          { predict_category(running.pre, last.category, last.transaction_type,
                             last.target_month, last.now),
            predict_category(post, last.category, last.transaction_type,
                             last.target_month, last.now) }

\* the value of one feature of a row of a feature matrix
Feature(row, fc, name) == row[CHOOSE i \in 1..Len(fc) : fc[i] = name]

\* the calendar features of the rows prepare_data returned: each in its range,
\* month and day those of the record's date, the derived ones as stated
CalendarFeatures ==
  \A i \in 1..Len(last.X) :
    LET f(name) == Feature(last.X[i], feature_columns, name)
        d       == last.prepared[i].date
    IN  /\ f("month") = d.month /\ f("month") \in 1..12
        /\ f("weekday") \in 0..6
        /\ f("is_weekend") = 1 <=> f("weekday") \in {5, 6}
        /\ f("is_weekend") \in {0, 1}
        /\ f("quarter") \in 1..4
        /\ f("quarter") = ((f("month") - 1) \div 3) + 1
        /\ f("day_of_month") = d.day /\ f("day_of_month") \in 1..31
        /\ f("is_month_start") = 1 <=> f("day_of_month") <= 7
        /\ f("is_month_start") \in {0, 1}
        /\ f("is_month_end") = 1 <=> f("day_of_month") >= 24
        /\ f("is_month_end") \in {0, 1}
        /\ ~(f("is_month_start") = 1 /\ f("is_month_end") = 1)

\* rows of the same date and category have the same feature vector
FeaturesOfDateAndCategory ==
  \A i, j \in 1..Len(last.X) :
    (/\ last.prepared[i].date = last.prepared[j].date
     /\ last.prepared[i].category = last.prepared[j].category) =>
      last.X[i] = last.X[j]

C22_PredictionVector ==
  (last.op = "predict_category" /\ last.X # <<>>) =>
    LET f(name) == Feature(last.X[1], feature_columns, name)
        now     == last.now[2]
    IN  /\ f("month") = IF last.target_month = 0 THEN last.now[1].month
                                                 ELSE last.target_month
        /\ f("weekday") = Weekday(now)
        /\ f("is_weekend") = IF Weekday(now) \in {5, 6} THEN 1 ELSE 0
        /\ f("quarter") = ((now.month - 1) \div 3) + 1
        /\ f("day_of_month") = now.day
        /\ f("is_month_start") = IF now.day <= 7 THEN 1 ELSE 0
        /\ f("is_month_end") = IF now.day >= 24 THEN 1 ELSE 0

\* C22 witness: a prediction in July for target month 1 reaches the estimator
\* with month 1 and quarter 3.
C22_Witness ==
  /\ last.op = "predict_category"
  /\ last.X # <<>>
  /\ last.target_month = 1
  /\ Feature(last.X[1], feature_columns, "month") = 1
  /\ Feature(last.X[1], feature_columns, "quarter") = 3

\* C23: a load_model that returns failure (file missing, file not deserializable,
\* or a required field missing from it) leaves estimator, vocabulary,
\* feature-name ordering and trained flag as they were before the call.
C23_FailedLoadFrame ==
  (last.op = "load_model" /\ ~last.ok) => last.changed = {}

\* the other of the two directions
OtherDirection(t) == IF t = "expense" THEN "income" ELSE "expense"

\* predict_category returns for the other direction what it returned, state,
\* category, target month and clock being the same
SameForBothDirections ==
  last.op = "predict_category" =>
    last.result = predict_category(Self, last.category,
                                   OtherDirection(last.transaction_type),
                                   last.target_month, last.now)

C25_ConfidenceAlwaysFloor ==
  /\ (last.op = "predict_category" /\ last.result # <<0, 0>>) =>
       last.result[2] = Tenths(ConfLo)
  /\ last.op = "predict_next_month" =>
       \A i \in 1..Len(last.predictions) :
         /\ last.predictions[i].expense_confidence = Tenths(ConfLo)
         /\ last.predictions[i].income_confidence = Tenths(ConfLo)

\* C25 witness: a forest whose trees split (importances summing to 1) predicts a
\* positive amount for a given target month with confidence 50.
C25_Witness ==
  /\ last.op = "predict_category"
  /\ last.target_month # 0
  /\ last.result[1] > 0
  /\ last.result[2] = Tenths(ConfLo)
  /\ model.fitted
  /\ ImportanceSum(model) > 0

\* C26: save_model on a trained model returns success and writes the model to
\* the path given, whether the path has a directory part or is a bare file
\* name, and whether or not its directory exists before the call.
C26_SaveAnyPath ==
  (last.op = "save_model" /\ last.was_fitted) =>
    /\ last.ok
    /\ fs[last.path] = Dump(Self)
    /\ last.path.dir # "" => last.path.dir \in dirs

====
